---------------------------- MODULE Spec2Model ----------------------------
(***************************************************************************)
(* Device-side agent of weynechen/audio_piple: the ESP32-S3 WebSocket      *)
(* client that keeps a connection to the file distribution server,         *)
(* relays inbound frames through a bounded queue to one processing task    *)
(* and moves files over HTTP with a running MD5.                           *)
(*                                                                         *)
(* Three execution contexts are modelled:                                  *)
(*   - the WebSocket client task, which runs websocket_event_handler;      *)
(*   - the FreeRTOS timer task, which runs the heartbeat and reconnect     *)
(*     timer callbacks;                                                    *)
(*   - ws_event_task, the processing loop (handle_ws_event, download_file, *)
(*     upload_file).                                                       *)
(*                                                                         *)
(* Modelling boundary.  xTimerStart / xTimerStop are taken by their        *)
(* documented effect (the timer becomes active / dormant).  File contents  *)
(* are byte sequences of length at most MaxLen; MD5 is a streaming hash    *)
(* over those bytes (injective on the modelled lengths).                   *)
(* A file name is the record [base, p8, ext]: ext is the text after the    *)
(* last '.', p8 the eight md5 characters of a generated short name.        *)
(***************************************************************************)
EXTENDS Integers, Sequences, FiniteSets, TLC

(***************************************************************************)
(* Program constants                                                       *)
(***************************************************************************)
MAX_RECONNECT_ATTEMPTS == 10
WS_QUEUE_SIZE == 10
MAX_FILES == 5
MAX_FILE_SIZE == 1048576
BUFFER_SIZE == 4096

(***************************************************************************)
(* Bounds of the model                                                     *)
(***************************************************************************)
\* longest HTTP body / stored file, in bytes
MaxLen == 2
\* last clock reading (seconds since boot) the model lets time reach
MaxNow == 3
\* capacity of the SPIFFS partition, in bytes
SpiffsTotal == 3
\* environment budgets of the general specification Spec
MaxData == 1
MaxEvents == 1
MaxFires == 1
\* environment budgets of SpecReconnect (the reconnection cap)
RcData == 2
RcEvents == 3
RcFires == 12
\* data frames of SpecQueue (queue saturation) and of SpecOrder (a transfer
\* with other messages around it)
QData == 11
OData == 2
\* environment budgets of SpecHeartbeat (a connection lost and regained)
HbData == 1
HbEvents == 3
HbFires == 2
\* download requests of SpecCatalog (a catalog that fills up)
CatData == 6
\* data frames of SpecHeap (payload buffers): two more than the queue holds
\* and one that is refused
HeapData == 13
\* SpecLoop (the processing loop under a connection lost for good): timer
\* firings, and the most events its environment can offer to the queue
LoopFires == 11
LoopArrivals == 3

VARIABLES
    conn,               \* esp_websocket_client_is_connected(client)
    heartbeat_timer,    \* TRUE iff the heartbeat timer is active
    reconnect_timer,    \* TRUE iff the reconnect timer is active
    reconnect_attempts, \* static int reconnect_attempts
    rt_pc, rt_tmp,      \* attempt_reconnect: position and the value it loaded
    ws_event_queue,     \* FreeRTOS queue of ws_event_msg_t
    cb_pc, cb_msg,      \* websocket_event_handler: position, event in xQueueSend
    cb_wait,            \* xQueueSend found the queue full and is blocked on it
    pl_pc, cur,         \* ws_event_task: position and the event it received
    xfer,               \* locals of download_file / upload_file
    device_files, file_count,
    fs,                 \* SPIFFS directory: sequence of [name, data]
    now,                \* esp_timer_get_time() / 1000000
    heap,               \* number of live payload buffers (malloc - free)
    frames, budget,     \* what the environment may still deliver
    arrivals,           \* events offered to the queue so far (arrival index)
    starts,             \* esp_websocket_client_start calls made by
                        \* attempt_reconnect since startup / last CONNECTED
    handled,            \* arrival index of the event received last
    job,                \* history of the event being handled
    last                \* the step just taken: context, operation, messages sent

vars == <<conn, heartbeat_timer, reconnect_timer, reconnect_attempts, rt_pc,
          rt_tmp, ws_event_queue, cb_pc, cb_msg, cb_wait, pl_pc, cur, xfer,
          device_files, file_count, fs, now, heap, frames, budget, arrivals,
          starts, handled, job, last>>

connVars == <<conn, heartbeat_timer, reconnect_timer, reconnect_attempts>>
rtVars == <<rt_pc, rt_tmp>>
cbVars == <<cb_pc, cb_msg, cb_wait>>
plVars == <<pl_pc, cur, xfer, job>>
catVars == <<device_files, file_count>>

(***************************************************************************)
(* File names and checksums                                                *)
(***************************************************************************)
NoName == [base |-> "", p8 |-> -1, ext |-> ""]
NoMd5 == -1
NoUrl == ""

Name(base, ext) == [base |-> base, p8 |-> -1, ext |-> ext]

\* mbedtls_md5_starts / mbedtls_md5_update / mbedtls_md5_finish: the context
\* is a running hash of the bytes fed so far, whatever their chunking.  The
\* bytes go in one after the other, (ctx * 3 + byte + 1) % 251 for each; a
\* buffer is digested as its first half followed by its second half, which
\* is the same fold, with the context of the first half read before the
\* second is begun.
MD5Starts == 0

RECURSIVE MD5Update(_, _)
MD5Update(ctx, bytes) ==
    IF ctx \notin 0..250 \/ bytes = <<>> THEN ctx
    ELSE IF Len(bytes) = 1 THEN (ctx * 3 + bytes[1] + 1) % 251
    ELSE LET h == Len(bytes) \div 2
         IN  MD5Update(MD5Update(ctx, SubSeq(bytes, 1, h)),
                       SubSeq(bytes, h + 1, Len(bytes)))

\* mbedtls_md5_finish: the digest of the bytes fed (padding and length go in)
MD5Finish(ctx) == (ctx * 7 + 5) % 251

MD5(bytes) == MD5Finish(MD5Update(MD5Starts, bytes))

\* "%8.8s" of a 32-character md5 string: its leading characters
Prefix8(md5) == md5 \div 4

\* download_file, lines 693-703: "f_" + first 8 md5 characters + extension
ShortName(filename, expected_md5) ==
    [base |-> "f_", p8 |-> Prefix8(expected_md5), ext |-> filename.ext]

\* strlen of a file name as stored on SPIFFS
NameLen(n) ==
    Len(n.base) + (IF n.p8 >= 0 THEN 8 ELSE 0)
               + (IF n.ext = "" THEN 0 ELSE 1 + Len(n.ext))

RECURSIVE Digits(_)
Digits(n) == IF n < 10 THEN 1 ELSE 1 + Digits(n \div 10)

(***************************************************************************)
(* Inbound messages.  A message is what the text of a data frame holds:    *)
(*   json     cJSON_Parse succeeds                                         *)
(*   compact  the type key is written "type":"<tag>" with no white space   *)
(*   type     the value of the type key ("" when there is none)            *)
(*   hasData  there is a "data" object; filename, url, md5, size are its   *)
(*            members (NoName / NoUrl / NoMd5 when not a string, size 0    *)
(*            when not a number)                                           *)
(***************************************************************************)
Msg(type, compact) ==
    [json |-> TRUE, compact |-> compact, type |-> type, hasData |-> FALSE,
     filename |-> NoName, url |-> NoUrl, md5 |-> NoMd5, size |-> 0]

DataMsg(type, compact, filename, url, md5, size) ==
    [json |-> TRUE, compact |-> compact, type |-> type, hasData |-> TRUE,
     filename |-> filename, url |-> url, md5 |-> md5, size |-> size]

NoMsg == [json |-> FALSE, compact |-> FALSE, type |-> "", hasData |-> FALSE,
          filename |-> NoName, url |-> NoUrl, md5 |-> NoMd5, size |-> 0]

\* text that is not JSON but still holds the characters "type":"<tag>"
Garbled(type) == [NoMsg EXCEPT !.compact = TRUE, !.type = type]

\* get_message_type, lines 130-144: finds the literal "type":" and copies
\* the tag when it is shorter than 31 characters; NULL ("") otherwise.
get_message_type(m) ==
    IF m.compact /\ m.type # "" /\ Len(m.type) < 31 THEN m.type ELSE ""

\* a frame as the WebSocket library hands it to the event handler
Frame(op_code, m) == [op_code |-> op_code, empty |-> FALSE, msg |-> m]
EmptyFrame(op_code) == [op_code |-> op_code, empty |-> TRUE, msg |-> NoMsg]

(***************************************************************************)
(* Outbound messages (calls of esp_websocket_client_send_text)             *)
(***************************************************************************)
Out(type) ==
    [type |-> type, filename |-> NoName, md5 |-> NoMd5, percent |-> -1,
     transferred |-> -1, total_size |-> -1, files |-> <<>>, timestamp |-> -1,
     version |-> "", mac |-> ""]

OutFile(type, filename) == [Out(type) EXCEPT !.filename = filename]

OutDone(type, filename, md5) ==
    [Out(type) EXCEPT !.filename = filename, !.md5 = md5]

OutProgress(type, filename, percent, transferred, total_size) ==
    [Out(type) EXCEPT !.filename = filename, !.percent = percent,
                      !.transferred = transferred, !.total_size = total_size]

(***************************************************************************)
(* Events on the queue (ws_event_msg_t) with their arrival index           *)
(***************************************************************************)
DataEvent(m, n) == [event_type |-> "WS_EVENT_DATA", msg |-> m, seq |-> n]
ErrorEvent(n) == [event_type |-> "WS_EVENT_ERROR", msg |-> NoMsg, seq |-> n]
NoEvent == [event_type |-> "NONE", msg |-> NoMsg, seq |-> 0]

NoXfer ==
    [dir |-> "none", url |-> NoUrl, filename |-> NoName, expected_md5 |-> NoMd5,
     file_size |-> 0, short |-> NoName, content_length |-> 0, status |-> 0,
     md5_ctx |-> MD5Starts, total |-> 0, last_percent |-> 0,
     last_update_time |-> 0, pos |-> 0, raced |-> FALSE]

NoJob ==
    [started |-> "none", acks |-> <<>>, completes |-> <<>>, written |-> <<>>,
     rd_err |-> FALSE, wr_short |-> FALSE, opened |-> FALSE, created |-> FALSE,
     ret |-> "none", files0 |-> <<>>]

\* the record of a step; for the step in which a handling ends, job is the
\* history of that handling
Done(op, in, sent, jb) ==
    [ctx |-> "loop", op |-> op, in |-> in, sent |-> sent, job |-> jb,
     waits |-> <<>>]

Step(ctx, op, in, sent) ==
    [ctx |-> ctx, op |-> op, in |-> in, sent |-> sent, job |-> NoJob,
     waits |-> <<>>]

\* a call that may block the caller, with the timeout argument it is given
\* as the source writes it
Call(name, ticks) == [call |-> name, ticks |-> ticks]

\* the record of a step that makes blocking calls
StepWaits(ctx, op, in, sent, waits) ==
    [Step(ctx, op, in, sent) EXCEPT !.waits = waits]

Min(a, b) == IF a < b THEN a ELSE b

\* the clock readings a blocking call may return to: no time has passed, or
\* the three seconds of the progress throttle have
Later(t) == {u \in {t, t + 3} : u <= MaxNow}


(***************************************************************************)
(* What the server may send                                                *)
(***************************************************************************)
FileA == Name("a", "bin")
FileB == Name("b", "")
Url == "http://x/a.bin"
\* the file the server offers under Url: MaxLen bytes
Body == [i \in 1..MaxLen |-> i % 2]
\* a file left on SPIFFS by an earlier boot (SPIFFS survives a reset, the
\* in-memory catalog does not)
OldFile == [name |-> [base |-> "f_", p8 |-> 0, ext |-> "bin"], data |-> <<0, 0>>]

DownloadNotify ==
    DataMsg("download_notify", TRUE, FileA, Url, MD5(Body), Len(Body))
UploadRequest == DataMsg("upload_request", FALSE, OldFile.name, Url, NoMd5, 0)

\* files left on SPIFFS by earlier downloads: two one-byte files, and one
\* whose name is 30 characters long ("f_" + 8 + a 19-character extension,
\* as short_filename[32] and the SPIFFS name length allow)
OldA == [name |-> [base |-> "f_", p8 |-> 1, ext |-> "bin"], data |-> <<0>>]
OldB == [name |-> [base |-> "f_", p8 |-> 2, ext |-> "bin"], data |-> <<1>>]
LongFile ==
    [name |-> [base |-> "f_", p8 |-> 3, ext |-> "0123456789abcdefghi"],
     data |-> <<1>>]

\* a second, one-byte file of the server, for runs of many downloads
UrlTiny == "http://x/t.bin"
TinyBody == <<1>>
TinyNotify ==
    DataMsg("download_notify", TRUE, Name("t", "bin"), UrlTiny, MD5(TinyBody),
            Len(TinyBody))

AckFrames ==
    { Frame(1, Msg("online_ack", TRUE)), Frame(1, Msg("online_ack", FALSE)),
      Frame(1, Msg("file_list_ack", TRUE)), Frame(1, Msg("heartbeat_ack", TRUE)) }

ControlFrames ==
    { Frame(9, NoMsg), Frame(10, NoMsg), Frame(8, NoMsg), EmptyFrame(1) }

DownloadFrames ==
    { Frame(1, DownloadNotify),
      Frame(1, [DownloadNotify EXCEPT !.compact = FALSE]),
      Frame(1, [DownloadNotify EXCEPT !.filename = NoName]),
      Frame(1, [DownloadNotify EXCEPT !.url = NoUrl]),
      Frame(1, [DownloadNotify EXCEPT !.md5 = NoMd5]),
      Frame(1, [DownloadNotify EXCEPT !.size = 0]),
      Frame(1, [DownloadNotify EXCEPT !.md5 = MD5(<<1, 1, 1>>), !.filename = FileB]),
      Frame(1, Msg("download_notify", TRUE)),
      Frame(1, Garbled("download_notify")) }

UploadFrames ==
    { Frame(1, UploadRequest),
      Frame(1, [UploadRequest EXCEPT !.compact = TRUE]),
      Frame(1, [UploadRequest EXCEPT !.filename = NoName]),
      Frame(1, [UploadRequest EXCEPT !.url = NoUrl]) }

OtherFrames ==
    { Frame(1, Msg("download_complete_ack", FALSE)),
      Frame(1, Msg("mystery", TRUE)),
      Frame(1, Msg("", FALSE)),
      Frame(1, NoMsg) }

AllFrames ==
    AckFrames \cup ControlFrames \cup DownloadFrames \cup UploadFrames
              \cup OtherFrames

(***************************************************************************)
(* Initial state: websocket_app_start has returned.  The queue and the     *)
(* processing task exist, both timers are created and dormant, the first   *)
(* connection attempt is under way.                                        *)
(***************************************************************************)
InitWith(F, b, dirs) ==
    /\ conn = FALSE
    /\ heartbeat_timer = FALSE
    /\ reconnect_timer = FALSE
    /\ reconnect_attempts = 0
    /\ rt_pc = "idle"
    /\ rt_tmp = 0
    /\ ws_event_queue = <<>>
    /\ cb_pc = "idle"
    /\ cb_msg = NoEvent
    /\ cb_wait = FALSE
    /\ pl_pc = "recv"
    /\ cur = NoEvent
    /\ xfer = NoXfer
    /\ device_files = <<>>
    /\ file_count = 0
    /\ fs \in dirs
    /\ now = 0
    /\ heap = 0
    /\ frames = F
    /\ budget = b
    /\ arrivals = 0
    /\ starts = 0
    /\ handled = 0
    /\ job = NoJob
    /\ last = Step("init", "websocket_app_start", NoMsg, <<>>)

Init ==
    InitWith(AllFrames, [data |-> MaxData, xfer |-> MaxData, ev |-> MaxEvents,
                         fire |-> MaxFires], {<<>>, <<OldFile>>})

Spend(what) == budget' = [budget EXCEPT ![what] = @ - 1]

(***************************************************************************)
(* send_online_message, send_file_list                                     *)
(***************************************************************************)
send_online_message ==
    [Out("online") EXCEPT !.version = "1.0.0", !.mac = "AA:BB:CC:DD:EE:FF"]

\* strlen(file_json) for entry i of the catalog (lines 424-430)
FileJsonLen(i, f) ==
    Min(127, (IF i > 1 THEN 1 ELSE 0) + 77 + Min(31, NameLen(f.filename))
             + Digits(f.size) + Digits(f.timestamp))

\* the entries strcat appends to files_buffer[384] before the loop breaks
RECURSIVE FileListEntries(_, _, _, _)
FileListEntries(files, count, i, used) ==
    IF i > count THEN <<>>
    ELSE IF used + FileJsonLen(i, files[i]) < 384 - 1
         THEN <<files[i]>> \o
              FileListEntries(files, count, i + 1, used + FileJsonLen(i, files[i]))
         ELSE <<>>

send_file_list(files, count) ==
    [Out("file_list") EXCEPT !.files = FileListEntries(files, count, 1, 0)]

(***************************************************************************)
(* The event queue                                                         *)
(***************************************************************************)
\* queues that differ from the FreeRTOS queue, used to show what the
\* properties below depend on: one slot too many, newest event first,
\* newest event received first
QueueHasRoomOneMore(q) == Len(q) <= WS_QUEUE_SIZE

xQueueSendToFront(q, e) == <<e>> \o q

xQueueReceiveNewest(q) == q[Len(q)]

\* xQueueSend(ws_event_queue, &msg, 10 / portTICK_PERIOD_MS): the event is
\* copied to the back of the queue if there is room; if the queue is still
\* full when the wait of 10 ms ends the call fails.
QueueHasRoom(q) == Len(q) < WS_QUEUE_SIZE

xQueueSend(q, e) == Append(q, e)

\* xQueueReceive: the event at the front of the queue
xQueueReceive(q) == Head(q)

(***************************************************************************)
(* websocket_event_handler (the WebSocket client task)                     *)
(***************************************************************************)
\* WEBSOCKET_EVENT_CONNECTED, lines 152-155: the counter is reset.  The
\* counter and the timers are shared with the timer task without a lock, so
\* a timer callback can run between this and the rest of the handler.
EventConnected ==
    /\ cb_pc = "idle"
    /\ ~conn
    /\ budget.ev > 0
    /\ Spend("ev")
    /\ conn' = TRUE
    /\ reconnect_attempts' = 0
    /\ starts' = 0
    /\ cb_pc' = "connected"
    /\ last' = Step("callback", "CONNECTED_RESET", NoMsg, <<>>)
    /\ UNCHANGED <<heartbeat_timer, reconnect_timer, rtVars, ws_event_queue,
                   cb_msg, cb_wait, plVars, catVars, fs, now, heap, frames,
                   arrivals, handled>>

\* WEBSOCKET_EVENT_CONNECTED, lines 157-161: the reconnect timer is stopped,
\* the online message sent and the heartbeat timer started
EventConnectedAnnounce ==
    /\ cb_pc = "connected"
    /\ reconnect_timer' = FALSE
    /\ heartbeat_timer' = TRUE
    /\ cb_pc' = "idle"
    /\ last' = StepWaits("callback", "CONNECTED", NoMsg,
                         <<send_online_message>>,
                         <<Call("xTimerStop", "portMAX_DELAY"),
                           Call("esp_websocket_client_send_text",
                                "portMAX_DELAY"),
                           Call("xTimerStart", "portMAX_DELAY")>>)
    /\ UNCHANGED <<conn, reconnect_attempts, rtVars, ws_event_queue, cb_msg,
                   cb_wait, plVars, catVars, fs, now, heap, frames, budget,
                   arrivals, starts, handled>>

\* the disconnect handling shared by WEBSOCKET_EVENT_DISCONNECTED
\* (lines 163-172) and a CLOSE frame (lines 189-197)
\* a disconnect handling that leaves the heartbeat timer as it is
OnDisconnectKeepsHeartbeat ==
    /\ heartbeat_timer' = heartbeat_timer
    /\ reconnect_timer' = TRUE

OnDisconnect ==
    /\ heartbeat_timer' = FALSE
    /\ reconnect_timer' = TRUE

\* the timer commands of lines 166 and 170 (192 and 195 for a CLOSE frame)
OnDisconnectWaits ==
    <<Call("xTimerStop", "portMAX_DELAY"), Call("xTimerStart", "portMAX_DELAY")>>

\* line 239 and line 252: the one bounded wait of the handler
QueueSendWaits == <<Call("xQueueSend", "pdMS_TO_TICKS(10)")>>

EventDisconnected ==
    /\ cb_pc = "idle"
    /\ budget.ev > 0
    /\ Spend("ev")
    /\ conn' = FALSE
    /\ OnDisconnect
    /\ last' = StepWaits("callback", "DISCONNECTED", NoMsg, <<>>,
                         OnDisconnectWaits)
    /\ UNCHANGED <<reconnect_attempts, rtVars, ws_event_queue, cbVars, plVars,
                   catVars, fs, now, heap, frames, arrivals, starts, handled>>

\* the simple acknowledgements the handler answers itself (lines 213-229)
InlineAck(type) == type \in {"online_ack", "file_list_ack", "heartbeat_ack"}

InlineSent(type) ==
    IF type = "online_ack" THEN <<send_file_list(device_files, file_count)>>
    ELSE <<>>

\* lines 838-846 run in the processing loop without any lock while the
\* handler runs in the WebSocket client task: a send_file_list of the
\* handler that overlaps them reads device_files and file_count while they
\* are written and formats into the same static buffers.  It may see the
\* catalog as it was, as it will be, or a mixture.
CatalogRace == pl_pc = "catalog_update"

TornFileList ==
    [Out("file_list") EXCEPT
        !.files = <<[filename |-> NoName, size |-> -1, md5 |-> NoMd5,
                     timestamp |-> -1]>>]

InlineOutcomes(type) ==
    IF type = "online_ack" /\ CatalogRace
    THEN { InlineSent(type),
           <<send_file_list(
               Append(device_files,
                      [filename |-> xfer.short, size |-> xfer.total,
                       md5 |-> MD5Finish(xfer.md5_ctx), timestamp |-> now]),
               file_count + 1)>>,
           <<TornFileList>> }
    ELSE { InlineSent(type) }

\* send_file_list, line 448: the one blocking call of an inline answer
InlineWaits(sent) ==
    IF sent = <<>> THEN <<>>
    ELSE <<Call("esp_websocket_client_send_text", "portMAX_DELAY")>>

\* a frame that asks for a transfer: a download_notify or upload_request the
\* device will act on (the environment sends at most budget.xfer of them)
Requests(f) ==
    /\ ~f.empty /\ f.op_code \notin {8, 9, 10}
    /\ f.msg.type \in {"download_notify", "upload_request"}
    /\ f.msg.json /\ f.msg.hasData
    /\ f.msg.filename # NoName /\ f.msg.url # NoUrl

\* WEBSOCKET_EVENT_DATA, lines 174-243
EventData ==
    /\ cb_pc = "idle"
    /\ conn
    /\ budget.data > 0
    /\ \E f \in frames :
      /\ Requests(f) => budget.xfer > 0
      /\ budget' = [budget EXCEPT !.data = @ - 1,
                        !.xfer = IF Requests(f) THEN @ - 1 ELSE @]
      /\ IF f.empty \/ f.op_code \in {9, 10}
           THEN /\ last' = Step("callback", "DATA_SKIPPED", NoMsg, <<>>)
                /\ UNCHANGED <<connVars, cbVars, heap, arrivals, xfer>>
           ELSE IF f.op_code = 8
           THEN /\ OnDisconnect
                /\ last' = StepWaits("callback", "DATA_CLOSE", NoMsg, <<>>,
                                     OnDisconnectWaits)
                /\ UNCHANGED <<conn, reconnect_attempts, cbVars, heap, arrivals,
                               xfer>>
           ELSE \E malloc_ok \in BOOLEAN :
               IF ~malloc_ok
               THEN /\ last' = Step("callback", "DATA_NOMEM", NoMsg, <<>>)
                    /\ UNCHANGED <<connVars, cbVars, heap, arrivals, xfer>>
               ELSE IF InlineAck(get_message_type(f.msg))
               THEN /\ \E sent \in InlineOutcomes(get_message_type(f.msg)) :
                         last' = StepWaits("callback", "DATA_INLINE", f.msg,
                                           sent, InlineWaits(sent))
                    /\ xfer' = IF get_message_type(f.msg) = "online_ack"
                                  /\ CatalogRace
                               THEN [xfer EXCEPT !.raced = TRUE] ELSE xfer
                    /\ UNCHANGED <<connVars, cbVars, heap, arrivals>>
               ELSE /\ cb_pc' = "xQueueSend"
                    /\ cb_msg' = DataEvent(f.msg, arrivals + 1)
                    /\ cb_wait' = ~QueueHasRoom(ws_event_queue)
                    /\ arrivals' = arrivals + 1
                    /\ heap' = heap + 1
                    /\ last' = StepWaits("callback", "DATA_QUEUEABLE", f.msg,
                                         <<>>, QueueSendWaits)
                    /\ UNCHANGED <<connVars, xfer>>
    /\ UNCHANGED <<rtVars, ws_event_queue, pl_pc, cur, job, catVars, fs, now,
                   frames, starts, handled>>

\* WEBSOCKET_EVENT_ERROR, lines 245-255
EventError ==
    /\ cb_pc = "idle"
    /\ budget.ev > 0
    /\ Spend("ev")
    /\ cb_pc' = "xQueueSend"
    /\ cb_msg' = ErrorEvent(arrivals + 1)
    /\ cb_wait' = ~QueueHasRoom(ws_event_queue)
    /\ arrivals' = arrivals + 1
    /\ last' = StepWaits("callback", "ERROR", NoMsg, <<>>, QueueSendWaits)
    /\ UNCHANGED <<connVars, rtVars, ws_event_queue, plVars, catVars, fs, now,
                   heap, frames, starts, handled>>

\* lines 239-243 and 252-254: xQueueSend returns, with the event on the
\* queue if there is room by now, and what follows it
QueueSendReturn ==
    /\ cb_pc = "xQueueSend"
    /\ IF QueueHasRoom(ws_event_queue)
       THEN /\ ws_event_queue' = xQueueSend(ws_event_queue, cb_msg)
            /\ heap' = heap
            /\ last' = Step("callback", "ENQUEUED", cb_msg.msg, <<>>)
       ELSE /\ ws_event_queue' = ws_event_queue
            /\ heap' = IF cb_msg.event_type = "WS_EVENT_DATA"
                       THEN heap - 1 ELSE heap
            /\ last' = Step("callback", "DROPPED", cb_msg.msg, <<>>)
    /\ cb_pc' = "idle"
    /\ cb_msg' = NoEvent
    /\ cb_wait' = FALSE
    /\ UNCHANGED <<connVars, rtVars, plVars, catVars, fs, now, frames, budget,
                   arrivals, starts, handled>>


(***************************************************************************)
(* The timer task: heartbeat_timer_callback, reconnect_timer_callback      *)
(***************************************************************************)
\* heartbeat_timer_callback, lines 452-463
HeartbeatFire ==
    /\ heartbeat_timer
    /\ rt_pc = "idle"
    /\ last' = StepWaits("timer", "HEARTBEAT", NoMsg,
                         <<[Out("heartbeat") EXCEPT !.timestamp = now]>>,
                         <<Call("esp_websocket_client_send_text", "0")>>)
    /\ UNCHANGED <<connVars, rtVars, ws_event_queue, cbVars, plVars, catVars,
                   fs, now, heap, frames, budget, arrivals, starts, handled>>

\* a cap that lets one attempt too many through
ReconnectAllowedOnceMore(n) == n <= MAX_RECONNECT_ATTEMPTS

\* attempt_reconnect, line 482: the test of the counter against the cap
ReconnectAllowed(n) == n < MAX_RECONNECT_ATTEMPTS

\* attempt_reconnect, lines 480-496.  The counter is a plain int shared
\* with the event handler, which runs in another task: the load of line 482
\* and the store of line 483 are separate steps.
ReconnectFire ==
    /\ reconnect_timer
    /\ rt_pc = "idle"
    /\ budget.fire > 0
    /\ Spend("fire")
    /\ IF ReconnectAllowed(reconnect_attempts)
       THEN /\ rt_pc' = "increment"
            /\ rt_tmp' = reconnect_attempts
            /\ reconnect_timer' = reconnect_timer
            /\ last' = Step("timer", "RECONNECT_FIRE", NoMsg, <<>>)
       ELSE /\ reconnect_timer' = FALSE
            /\ UNCHANGED rtVars
            /\ last' = Step("timer", "RECONNECT_GIVE_UP", NoMsg, <<>>)
    /\ UNCHANGED <<conn, heartbeat_timer, reconnect_attempts, ws_event_queue,
                   cbVars, plVars, catVars, fs, now, heap, frames, arrivals,
                   starts, handled>>

ReconnectIncrement ==
    /\ rt_pc = "increment"
    /\ reconnect_attempts' = rt_tmp + 1
    /\ IF ~conn
       THEN /\ starts' = starts + 1
            /\ last' = Step("timer", "RECONNECT_START", NoMsg, <<>>)
       ELSE /\ starts' = starts
            /\ last' = Step("timer", "RECONNECT_NO_START", NoMsg, <<>>)
    /\ rt_pc' = "idle"
    /\ rt_tmp' = 0
    /\ UNCHANGED <<conn, heartbeat_timer, reconnect_timer, ws_event_queue,
                   cbVars, plVars, catVars, fs, now, heap, frames, budget,
                   arrivals, handled>>

(***************************************************************************)
(* SPIFFS                                                                  *)
(***************************************************************************)
RECURSIVE Used(_)
Used(f) == IF f = <<>> THEN 0 ELSE Len(Head(f).data) + Used(Tail(f))

\* total - used of esp_spiffs_info
Free(f) == SpiffsTotal - Used(f)

RECURSIVE FileIndex(_, _, _)
FileIndex(f, name, i) ==
    IF i > Len(f) THEN 0
    ELSE IF f[i].name = name THEN i ELSE FileIndex(f, name, i + 1)

Resident(f, name) == FileIndex(f, name, 1) # 0

\* download_file, lines 660-683: readdir / unlink until enough space is free
RECURSIVE Reclaim(_, _, _)
Reclaim(kept, rest, need) ==
    IF rest = <<>> THEN kept
    ELSE IF NameLen(Head(rest).name) < 30
         THEN IF Free(kept \o Tail(rest)) >= need
              THEN kept \o Tail(rest)
              ELSE Reclaim(kept, Tail(rest), need)
         ELSE Reclaim(kept \o <<Head(rest)>>, Tail(rest), need)

\* fopen(file_path, "wb"): the file is created, or truncated if it exists
FopenWb(f, name) ==
    IF Resident(f, name)
    THEN [f EXCEPT ![FileIndex(f, name, 1)].data = <<>>]
    ELSE Append(f, [name |-> name, data |-> <<>>])

\* the bytes fwrite stores: all of them while space lasts
FwriteAppend(f, name, bytes) ==
    [f EXCEPT ![FileIndex(f, name, 1)].data = @ \o bytes]

(***************************************************************************)
(* ws_event_task and handle_ws_event (the processing loop)                 *)
(***************************************************************************)
\* handle_ws_event, line 319
DownloadNotifyValid(m) ==
    /\ m.json /\ m.hasData
    /\ m.filename # NoName /\ m.url # NoUrl /\ m.md5 # NoMd5 /\ m.size > 0

\* handle_upload_request, lines 875-892
UploadRequestValid(m) ==
    m.json /\ m.hasData /\ m.filename # NoName /\ m.url # NoUrl

\* handle_ws_event, lines 285-374: what the dispatcher starts for an event
handle_ws_event(e) ==
    IF e.event_type # "WS_EVENT_DATA" THEN "none"
    ELSE IF get_message_type(e.msg) # ""
         THEN IF get_message_type(e.msg) = "download_notify"
                 /\ DownloadNotifyValid(e.msg)
              THEN "download" ELSE "none"
         ELSE IF e.msg.json /\ e.msg.type = "upload_request"
                 /\ UploadRequestValid(e.msg)
              THEN "upload" ELSE "none"

\* a loop that never frees the payload
FreePayloadNever(e) == heap

\* ws_event_task, lines 276-279: free the payload of a data event
FreePayload(e) == IF e.event_type = "WS_EVENT_DATA" THEN heap - 1 ELSE heap

\* ws_event_task, lines 270-280, with handle_ws_event up to the start of a
\* transfer: the acknowledgement is sent and download_file / upload_file
\* is entered, or the event is done and its payload freed.
Receive ==
    /\ pl_pc = "recv"
    /\ ws_event_queue # <<>>
    /\ LET e == xQueueReceive(ws_event_queue)
           what == handle_ws_event(e)
           m == e.msg
       IN /\ ws_event_queue' = Tail(ws_event_queue)
          /\ handled' = e.seq
          /\ IF what = "download"
             THEN /\ pl_pc' = "download_file"
                  /\ xfer' = [NoXfer EXCEPT !.dir = "download", !.url = m.url,
                                 !.filename = m.filename,
                                 !.expected_md5 = m.md5, !.file_size = m.size]
                  /\ job' = [NoJob EXCEPT !.started = "download",
                                !.acks = <<OutFile("download_ack", m.filename)>>,
                                !.files0 = device_files]
                  /\ last' = Step("loop", "RECEIVE", m,
                                  <<OutFile("download_ack", m.filename)>>)
                  /\ heap' = heap
                  /\ cur' = e
             ELSE IF what = "upload"
             THEN /\ pl_pc' = "upload_file"
                  /\ xfer' = [NoXfer EXCEPT !.dir = "upload", !.url = m.url,
                                 !.filename = m.filename]
                  /\ job' = [NoJob EXCEPT !.started = "upload",
                                !.acks = <<OutFile("upload_ack", m.filename)>>,
                                !.files0 = device_files]
                  /\ last' = Step("loop", "RECEIVE", m,
                                  <<OutFile("upload_ack", m.filename)>>)
                  /\ heap' = heap
                  /\ cur' = e
             ELSE /\ pl_pc' = "recv"
                  /\ xfer' = NoXfer
                  /\ job' = NoJob
                  /\ last' = Done(IF e.event_type = "WS_EVENT_ERROR"
                                  THEN "HANDLED_ERROR" ELSE "HANDLED", m, <<>>,
                                  [NoJob EXCEPT !.files0 = device_files])
                  /\ heap' = FreePayload(e)
                  /\ cur' = NoEvent
    /\ \E t \in Later(now) : now' = t
    /\ UNCHANGED <<connVars, rtVars, cbVars, catVars, fs, frames, budget,
                   arrivals, starts>>

\* a loop that goes back to xQueueReceive with the transfer still running
ReturnEarly(ret, jb, sent) ==
    /\ pl_pc' = "recv"
    /\ xfer' = xfer
    /\ job' = NoJob
    /\ heap' = FreePayload(cur)
    /\ last' = Done("RETURN", cur.msg, sent, [jb EXCEPT !.ret = ret])
    /\ cur' = NoEvent

\* the return of download_file / upload_file to handle_ws_event and
\* ws_event_task: the result is logged and the payload freed
Return(ret, jb, sent) ==
    /\ pl_pc' = "recv"
    /\ xfer' = NoXfer
    /\ job' = NoJob
    /\ heap' = FreePayload(cur)
    /\ last' = Done("RETURN", cur.msg, sent, [jb EXCEPT !.ret = ret])
    /\ cur' = NoEvent


(***************************************************************************)
(* download_file                                                           *)
(***************************************************************************)
\* the bytes the HTTP server holds under a locator
HttpBody(url) ==
    IF url = Url THEN Body ELSE IF url = UrlTiny THEN TinyBody ELSE <<>>

\* what esp_http_client_fetch_headers may return, and the HTTP status
ContentLengths(url) == {0, Len(HttpBody(url)), MAX_FILE_SIZE + 1}
StatusCodes == {200, 404}

\* the byte sequences one esp_http_client_read may deliver into a buffer
\* of n bytes when `total` bytes of the body have been read: the next
\* bytes of the body, at least one and at most n
Chunks(url, total, n) ==
    {SubSeq(HttpBody(url), total + 1, total + k) :
        k \in 1..Min(n, Len(HttpBody(url)) - total)}

\* line 730
ContentLengthOk(cl) == ~(cl <= 0 \/ cl > MAX_FILE_SIZE)

\* line 782 / line 1013
Percent(total, size) == (total * 100) \div size

\* a throttle that may report a percentage again
ProgressDueAgain(percent, last_percent, current_time, last_update_time) ==
    (percent - last_percent >= 10) \/ (current_time - last_update_time >= 3)

\* lines 789-791 / lines 1020-1022: throttle of the progress notification
ProgressDue(percent, last_percent, current_time, last_update_time) ==
    /\ (percent - last_percent >= 10) \/ (current_time - last_update_time >= 3)
    /\ percent # last_percent

\* a checksum that misses the first byte of every chunk
HashedBytesButFirst(chunk) == Tail(chunk)

\* line 778: the bytes of a chunk of read_len bytes fed to the checksum
HashedBytes(chunk) == chunk

\* a catalog that takes one record more than device_files holds
CatalogHasRoomOneMore(n) == n <= MAX_FILES

\* line 838
CatalogHasRoom(n) == n < MAX_FILES

\* a File Record that carries no checksum
FileRecordNoMd5(name, size, md5, timestamp) ==
    [filename |-> name, size |-> size, md5 |-> NoMd5, timestamp |-> timestamp]

\* lines 839-842: the File Record of a finished download
FileRecord(name, size, md5, timestamp) ==
    [filename |-> name, size |-> size, md5 |-> md5, timestamp |-> timestamp]

\* line 835: the name and checksum download_complete carries
send_download_complete(filename, md5) ==
    OutDone("download_complete", filename, md5)

\* a second space check that lets a download through one byte short
StillInsufficientByTwo(free_space, file_size) == free_space + 1 < file_size

\* line 686: the space check after the reclamation
StillInsufficient(free_space, file_size) == free_space < file_size

\* lines 626-750: everything before the read loop
DownloadStart ==
    /\ pl_pc = "download_file"
    /\ \E fail \in {"none", "http_init", "spiffs_info", "opendir", "fopen",
                    "http_open", "malloc"},
          cl \in ContentLengths(xfer.url), st \in StatusCodes :
        LET need == xfer.file_size
            fs1 == IF Free(fs) < need /\ fail # "opendir"
                   THEN Reclaim(<<>>, fs, need) ELSE fs
            short == ShortName(xfer.filename, xfer.expected_md5)
            fs2 == FopenWb(fs1, short)
        IN  IF fail = "http_init"
            THEN fs' = fs /\ Return("ESP_FAIL", job, <<>>)
            ELSE IF fail = "spiffs_info"
            THEN fs' = fs /\ Return("ESP_ERR_SPIFFS", job, <<>>)
            ELSE IF StillInsufficient(Free(fs1), need)
            THEN fs' = fs1 /\ Return("ESP_ERR_NO_MEM", job, <<>>)
            ELSE IF fail = "fopen"
            THEN fs' = fs1 /\ Return("ESP_FAIL", job, <<>>)
            ELSE IF fail = "http_open"
            THEN /\ fs' = fs2
                 /\ Return("ESP_ERR_HTTP", [job EXCEPT !.created = TRUE], <<>>)
            ELSE IF ~ContentLengthOk(cl)
            THEN /\ fs' = fs2
                 /\ Return("ESP_ERR_INVALID_SIZE",
                           [job EXCEPT !.created = TRUE, !.opened = TRUE], <<>>)
            ELSE IF fail = "malloc"
            THEN /\ fs' = fs2
                 /\ Return("ESP_ERR_NO_MEM",
                           [job EXCEPT !.created = TRUE, !.opened = TRUE], <<>>)
            ELSE /\ fs' = fs2
                 /\ pl_pc' = "download_loop"
                 /\ xfer' = [xfer EXCEPT !.short = short,
                                !.content_length = cl, !.status = st,
                                !.md5_ctx = MD5Starts, !.total = 0,
                                !.last_percent = 0, !.last_update_time = 0]
                 /\ job' = [job EXCEPT !.created = TRUE, !.opened = TRUE]
                 /\ last' = Step("loop", "DOWNLOAD_START", cur.msg, <<>>)
                 /\ UNCHANGED <<cur, heap>>
    /\ UNCHANGED <<connVars, rtVars, ws_event_queue, cbVars, catVars, now,
                   frames, budget, arrivals, starts, handled>>

\* lines 760-799: one pass of the read loop in which bytes were read
DownloadChunk ==
    /\ pl_pc = "download_loop"
    /\ xfer.total < xfer.content_length
    /\ \E chunk \in Chunks(xfer.url, xfer.total,
                         Min(BUFFER_SIZE, xfer.content_length - xfer.total)),
          io_ok \in BOOLEAN, t \in Later(now) :
        LET read_len == Len(chunk)
            written == IF io_ok THEN Min(read_len, Free(fs)) ELSE 0
            total_read == xfer.total + read_len
            percent == Percent(total_read, xfer.content_length)
            due == ProgressDue(percent, xfer.last_percent, t,
                               xfer.last_update_time)
            note == OutProgress("download_progress", xfer.filename, percent,
                                total_read, xfer.content_length)
        IN  /\ fs' = FwriteAppend(fs, xfer.short, SubSeq(chunk, 1, written))
            /\ IF written # read_len
               THEN /\ Return("ESP_FAIL",
                              [job EXCEPT !.wr_short = TRUE,
                                  !.written = @ \o SubSeq(chunk, 1, written)],
                              <<>>)
                    /\ now' = now
               ELSE /\ xfer' = [xfer EXCEPT
                                   !.md5_ctx = MD5Update(@, HashedBytes(chunk)),
                                   !.total = total_read,
                                   !.last_percent = IF due THEN percent ELSE @,
                                   !.last_update_time = IF due THEN t ELSE @]
                    /\ job' = [job EXCEPT !.written = @ \o chunk]
                    /\ last' = Step("loop", "DOWNLOAD_CHUNK", cur.msg,
                                    IF due THEN <<note>> ELSE <<>>)
                    /\ now' = t
                    /\ UNCHANGED <<pl_pc, cur, heap>>
    /\ UNCHANGED <<connVars, rtVars, ws_event_queue, cbVars, catVars, frames,
                   budget, arrivals, starts, handled>>

\* lines 761-764 and 803-836: esp_http_client_read returns 0 (end of the
\* stream) or a negative value (read error); the loop is left, the checksum
\* finished and, on status 200, download_complete sent.
DownloadEnd ==
    /\ pl_pc = "download_loop"
    /\ \E rd_err \in BOOLEAN :
        LET calculated_md5 == MD5Finish(xfer.md5_ctx)
            done == send_download_complete(xfer.short, calculated_md5)
            jb == [job EXCEPT !.rd_err = rd_err]
        IN  IF xfer.status = 200
            THEN IF CatalogHasRoom(file_count)
                 THEN /\ pl_pc' = "catalog_update"
                      /\ job' = [jb EXCEPT !.completes = Append(@, done)]
                      /\ last' = Step("loop", "DOWNLOAD_COMPLETE", cur.msg,
                                      <<done>>)
                      /\ UNCHANGED <<cur, xfer, heap>>
                 ELSE Return("ESP_OK", [jb EXCEPT !.completes = Append(@, done)],
                             <<done>>)
            ELSE Return("ESP_FAIL", jb, <<>>)
    /\ UNCHANGED <<connVars, rtVars, ws_event_queue, cbVars, catVars, fs, now,
                   frames, budget, arrivals, starts, handled>>

\* lines 838-849: the File Record is written, file_count incremented and
\* the catalog announced; the announcement is the catalog's, or a mixture
\* when the handler formatted a file_list in the same buffers meanwhile
CatalogUpdate ==
    /\ pl_pc = "catalog_update"
    /\ LET rec == FileRecord(xfer.short, xfer.total, MD5Finish(xfer.md5_ctx),
                             now)
           list == send_file_list(Append(device_files, rec), file_count + 1)
       IN /\ device_files' = Append(device_files, rec)
          /\ file_count' = file_count + 1
          /\ \E sent \in (IF xfer.raced THEN {list, TornFileList} ELSE {list}) :
                Return("ESP_OK", job, <<sent>>)
    /\ UNCHANGED <<connVars, rtVars, ws_event_queue, cbVars, fs, now, frames,
                   budget, arrivals, starts, handled>>

(***************************************************************************)
(* upload_file                                                             *)
(***************************************************************************)
UploadStatusCodes == {200, 201, 500}

\* line 1070
send_upload_complete(filename, md5) == OutDone("upload_complete", filename, md5)

FileData(f, name) == f[FileIndex(f, name, 1)].data

\* lines 918-988: everything before the write loop
UploadStart ==
    /\ pl_pc = "upload_file"
    /\ \E fail \in {"none", "fopen", "http_init", "http_open", "malloc"} :
        LET size == IF Resident(fs, xfer.filename)
                    THEN Len(FileData(fs, xfer.filename)) ELSE 0
        IN  IF fail = "fopen" \/ ~Resident(fs, xfer.filename)
            THEN Return("ESP_FAIL", job, <<>>)
            ELSE IF size <= 0 \/ size > MAX_FILE_SIZE
            THEN Return("ESP_ERR_INVALID_SIZE", job, <<>>)
            ELSE IF fail = "http_init"
            THEN Return("ESP_FAIL", job, <<>>)
            ELSE IF fail = "http_open"
            THEN Return("ESP_ERR_HTTP", job, <<>>)
            ELSE IF fail = "malloc"
            THEN Return("ESP_ERR_NO_MEM", [job EXCEPT !.opened = TRUE], <<>>)
            ELSE /\ pl_pc' = "upload_loop"
                 /\ xfer' = [xfer EXCEPT !.file_size = size,
                                !.md5_ctx = MD5Starts, !.total = 0, !.pos = 0,
                                !.last_percent = 0, !.last_update_time = 0]
                 /\ job' = [job EXCEPT !.opened = TRUE]
                 /\ last' = Step("loop", "UPLOAD_START", cur.msg, <<>>)
                 /\ UNCHANGED <<cur, heap>>
    /\ UNCHANGED <<connVars, rtVars, ws_event_queue, cbVars, catVars, fs, now,
                   frames, budget, arrivals, starts, handled>>

\* lines 998-1030: one pass of the write loop
UploadChunk ==
    /\ pl_pc = "upload_loop"
    /\ xfer.pos < xfer.file_size
    /\ LET read_len == Min(BUFFER_SIZE, xfer.file_size - xfer.pos)
           chunk == SubSeq(FileData(fs, xfer.filename), xfer.pos + 1,
                           xfer.pos + read_len)
       IN \E write_len \in {-1, 0, read_len}, t \in Later(now) :
           LET total_write == xfer.total + write_len
               percent == Percent(total_write, xfer.file_size)
               due == ProgressDue(percent, xfer.last_percent, t,
                                  xfer.last_update_time)
               note == OutProgress("upload_progress", xfer.filename, percent,
                                   total_write, xfer.file_size)
           IN  IF write_len < 0
               THEN Return("ESP_FAIL", job, <<>>) /\ now' = now
               ELSE /\ xfer' = [xfer EXCEPT
                                   !.md5_ctx = MD5Update(@, chunk),
                                   !.total = total_write,
                                   !.pos = @ + read_len,
                                   !.last_percent = IF due THEN percent ELSE @,
                                   !.last_update_time = IF due THEN t ELSE @]
                    /\ job' = [job EXCEPT
                                  !.written = @ \o SubSeq(chunk, 1, write_len)]
                    /\ last' = Step("loop", "UPLOAD_CHUNK", cur.msg,
                                    IF due THEN <<note>> ELSE <<>>)
                    /\ now' = t
                    /\ UNCHANGED <<pl_pc, cur, heap>>
    /\ UNCHANGED <<connVars, rtVars, ws_event_queue, cbVars, catVars, fs,
                   frames, budget, arrivals, starts, handled>>

\* lines 1032-1076: fread returns 0, the loop is left and the function
\* runs to its end
UploadEnd ==
    /\ pl_pc = "upload_loop"
    /\ xfer.pos = xfer.file_size
    /\ \E st \in UploadStatusCodes :
        LET calculated_md5 == MD5Finish(xfer.md5_ctx)
            final == IF xfer.last_percent # 100 /\ xfer.total = xfer.file_size
                     THEN <<OutProgress("upload_progress", xfer.filename, 100,
                                        xfer.total, xfer.file_size)>>
                     ELSE <<>>
            done == send_upload_complete(xfer.filename, calculated_md5)
        IN  IF st \in {200, 201}
            THEN Return("ESP_OK", [job EXCEPT !.completes = Append(@, done)],
                        final \o <<done>>)
            ELSE Return("ESP_FAIL", job, final)
    /\ UNCHANGED <<connVars, rtVars, ws_event_queue, cbVars, catVars, fs, now,
                   frames, budget, arrivals, starts, handled>>

(***************************************************************************)
(* Specifications                                                          *)
(***************************************************************************)
Next ==
    \/ EventConnected
    \/ EventConnectedAnnounce
    \/ EventDisconnected
    \/ EventData
    \/ EventError
    \/ QueueSendReturn
    \/ HeartbeatFire
    \/ ReconnectFire
    \/ ReconnectIncrement
    \/ Receive
    \/ DownloadStart
    \/ DownloadChunk
    \/ DownloadEnd
    \/ CatalogUpdate
    \/ UploadStart
    \/ UploadChunk
    \/ UploadEnd

Spec == Init /\ [][Next]_vars


\* The connection, the queue and the timers without transfers: when the
\* server sends no download_notify and no upload_request, download_file and
\* upload_file are never entered and the steps left are these.
NextControl ==
    \/ EventConnected
    \/ EventConnectedAnnounce
    \/ EventDisconnected
    \/ EventData
    \/ EventError
    \/ QueueSendReturn
    \/ HeartbeatFire
    \/ ReconnectFire
    \/ ReconnectIncrement
    \/ Receive

\* frames that ask for no transfer: a CLOSE frame, an acknowledgement the
\* callback answers itself, a message the processing loop ignores
ControlOnlyFrames ==
    { Frame(8, NoMsg), Frame(1, Msg("online_ack", TRUE)),
      Frame(1, Msg("mystery", TRUE)) }

\* the reconnection cap: enough timer firings to pass the cap
InitReconnect ==
    InitWith(ControlOnlyFrames,
             [data |-> RcData, xfer |-> 0, ev |-> RcEvents, fire |-> RcFires],
             {<<>>})

SpecReconnect == InitReconnect /\ [][NextControl]_vars

\* the heartbeat: a connection that is lost and regained.  Both timers are
\* auto-reload timers (lines 1160-1165) served by the FreeRTOS timer task,
\* which runs every callback of a running timer and runs a callback it has
\* entered to its end.
InitHeartbeat ==
    InitWith(ControlOnlyFrames,
             [data |-> HbData, xfer |-> 0, ev |-> HbEvents, fire |-> HbFires],
             {<<>>})

SpecHeartbeat ==
    /\ InitHeartbeat /\ [][NextControl]_vars
    /\ WF_vars(HeartbeatFire)
    /\ WF_vars(ReconnectIncrement)

\* queue saturation: more arrivals than the queue holds
InitQueue ==
    InitWith(ControlOnlyFrames,
             [data |-> QData, xfer |-> 0, ev |-> MaxEvents, fire |-> MaxFires],
             {<<>>})

SpecQueue == InitQueue /\ [][NextControl]_vars

\* ordering: transfers with acknowledgements and other messages around them
OrderFrames ==
    { Frame(1, Msg("mystery", TRUE)), Frame(1, Msg("online_ack", TRUE)),
      Frame(1, DownloadNotify), Frame(1, UploadRequest) }

InitOrder ==
    InitWith(OrderFrames,
             [data |-> OData, xfer |-> OData, ev |-> MaxEvents,
              fire |-> MaxFires], {<<OldFile>>})

SpecOrder == InitOrder /\ [][Next]_vars

\* A catalog that fills up: the server sends download requests only, one
\* connection is made and no timer expires, so the steps left are these.
NextDownloads ==
    \/ EventConnected
    \/ EventConnectedAnnounce
    \/ EventData
    \/ QueueSendReturn
    \/ Receive
    \/ DownloadStart
    \/ DownloadChunk
    \/ DownloadEnd
    \/ CatalogUpdate

CatalogFrames == { Frame(1, TinyNotify) }

InitCatalog ==
    InitWith(CatalogFrames,
             [data |-> CatData, xfer |-> CatData, ev |-> 1, fire |-> 0],
             {<<>>})

SpecCatalog == InitCatalog /\ [][NextDownloads]_vars

\* Storage: one download request, of any declared size, on a file system
\* that holds files of earlier downloads.
ReclaimFrames ==
    { Frame(1, [DownloadNotify EXCEPT !.size = k]) :
        k \in 0..(SpiffsTotal + 1) \cup {MAX_FILE_SIZE + 1} }

ReclaimDirs ==
    { <<>>, <<OldA>>, <<OldA, OldB>>, <<LongFile, OldA>>,
      <<OldA, LongFile, OldB>>, <<OldFile>> }

InitReclaim ==
    InitWith(ReclaimFrames, [data |-> 1, xfer |-> 1, ev |-> 1, fire |-> 0],
             ReclaimDirs)

SpecReclaim == InitReclaim /\ [][NextDownloads]_vars

\* Progress: one transfer at a time, a download of Body or an upload of a
\* file one byte longer than the transfer buffer, which upload_file reads
\* in two passes of its loop (upload_file never asks for the size of the
\* partition, so SpiffsTotal plays no part where this file is stored).
TwoPassFile ==
    [name |-> [base |-> "f_", p8 |-> 9, ext |-> "bin"],
     data |-> [i \in 1..(BUFFER_SIZE + 1) |-> i % 2]]

TwoPassUpload ==
    DataMsg("upload_request", FALSE, TwoPassFile.name, Url, NoMd5, 0)

NextTransfers ==
    \/ EventConnected
    \/ EventConnectedAnnounce
    \/ EventData
    \/ QueueSendReturn
    \/ Receive
    \/ DownloadStart
    \/ DownloadChunk
    \/ DownloadEnd
    \/ CatalogUpdate
    \/ UploadStart
    \/ UploadChunk
    \/ UploadEnd

InitProgress ==
    \/ InitWith({Frame(1, DownloadNotify)},
                [data |-> 2, xfer |-> 2, ev |-> 1, fire |-> 0], {<<>>})
    \/ InitWith({Frame(1, TwoPassUpload)},
                [data |-> 2, xfer |-> 2, ev |-> 1, fire |-> 0],
                {<<TwoPassFile>>})

SpecProgress == InitProgress /\ [][NextTransfers]_vars

\* Discarded messages: texts whose type the device does not know, that
\* carry no type, or that are not JSON (with or without the text
\* "type":"<tag>" somewhere in them), on a connection that may be lost and
\* regained.
DiscardFrames ==
    { Frame(1, Msg("mystery", TRUE)), Frame(1, Msg("mystery", FALSE)),
      Frame(1, Msg("", FALSE)), Frame(1, NoMsg),
      Frame(1, Garbled("mystery")), Frame(1, Garbled("download_notify")),
      Frame(1, Garbled("online_ack")) }

InitDiscard ==
    InitWith(DiscardFrames, [data |-> 2, xfer |-> 0, ev |-> 2, fire |-> 2],
             {<<>>})

SpecDiscard == InitDiscard /\ [][NextControl]_vars

\* The processing loop: ws_event_task is created once (line 1110), is never
\* deleted and blocks only in xQueueReceive and in the calls of a transfer;
\* the scheduler runs it whenever it is ready, so each of its steps that
\* stays possible is taken.  The connection is made, lost and retried up to
\* the cap while events wait in the queue.
LoopFrames ==
    { Frame(1, TinyNotify), Frame(1, [TinyNotify EXCEPT !.compact = FALSE]),
      Frame(1, Msg("mystery", TRUE)) }

\* the server asks for no upload: upload_file is never entered
NextLoop ==
    \/ EventConnected
    \/ EventConnectedAnnounce
    \/ EventDisconnected
    \/ EventData
    \/ EventError
    \/ QueueSendReturn
    \/ HeartbeatFire
    \/ ReconnectFire
    \/ ReconnectIncrement
    \/ Receive
    \/ DownloadStart
    \/ DownloadChunk
    \/ DownloadEnd
    \/ CatalogUpdate

InitLoop ==
    InitWith(LoopFrames,
             [data |-> 2, xfer |-> 1, ev |-> 2, fire |-> LoopFires], {<<>>})

LoopFairness ==
    /\ WF_vars(Receive)
    /\ WF_vars(DownloadStart) /\ WF_vars(DownloadChunk)
    /\ WF_vars(DownloadEnd) /\ WF_vars(CatalogUpdate)

SpecLoop == InitLoop /\ [][NextLoop]_vars /\ LoopFairness

\* Round trip: the file the device stores for the download of Body is the
\* file the server asks it to upload, before the download (the file is
\* there from an earlier boot) or after it.
RoundName == ShortName(FileA, MD5(Body))

RoundUpload == DataMsg("upload_request", FALSE, RoundName, Url, NoMd5, 0)

RoundFrames == { Frame(1, DownloadNotify), Frame(1, RoundUpload) }

InitRoundTrip ==
    InitWith(RoundFrames, [data |-> 2, xfer |-> 2, ev |-> 1, fire |-> 0],
             { <<>>, <<[name |-> RoundName, data |-> Body]>> })

SpecRoundTrip == InitRoundTrip /\ [][NextTransfers]_vars

\* Payload buffers: one download that keeps the processing loop busy while
\* more messages arrive than the queue and the two tasks can hold.
HeapFrames == { Frame(1, TinyNotify), Frame(1, Msg("mystery", TRUE)) }

InitHeap ==
    InitWith(HeapFrames, [data |-> HeapData, xfer |-> 1, ev |-> 1, fire |-> 0],
             {<<>>})

SpecHeap == InitHeap /\ [][NextDownloads]_vars

\* Two downloads, of two files or of the same file twice, on a partition
\* that holds only one of them.
OtherNotify ==
    [DownloadNotify EXCEPT !.md5 = MD5(<<1, 1, 1>>), !.filename = FileB]

TwoFileFrames == { Frame(1, DownloadNotify), Frame(1, OtherNotify) }

InitTwoFiles ==
    InitWith(TwoFileFrames, [data |-> 2, xfer |-> 2, ev |-> 1, fire |-> 0],
             {<<>>})

SpecTwoFiles == InitTwoFiles /\ [][NextDownloads]_vars

C2_DigestOfWrittenBytes ==
    (last.op = "RETURN" /\ last.job.started = "download") =>
        /\ Len(last.job.completes) <= 1
        /\ \A i \in 1..Len(last.job.completes) :
              /\ last.job.completes[i].md5 = MD5(last.job.written)
              /\ FileData(fs, last.job.completes[i].filename) = last.job.written

\* a download that wrote the whole body and reported it
C2_CompleteSent ==
    /\ last.op = "RETURN" /\ last.job.started = "download"
    /\ Len(last.job.completes) = 1
    /\ last.job.written = Body

\* C3: when esp_http_client_read fails or a write is short, download_file
\* returns a failure code, sends no download_complete and leaves the
\* catalog as it was when the download began.
C3_ErrorAbortsDownload ==
    (/\ last.op = "RETURN" /\ last.job.started = "download"
     /\ (last.job.rd_err \/ last.job.wr_short)) =>
        /\ last.job.ret # "ESP_OK"
        /\ last.job.completes = <<>>
        /\ device_files = last.job.files0

\* C4: an upload_request whose data carries filename and url is, when the
\* processing loop receives it, answered with exactly one upload_ack for
\* that filename and upload_file is entered; one that lacks filename or url
\* gets no answer and no upload.
C4_UploadRequestServed ==
    (/\ last.ctx = "loop" /\ last.op \in {"RECEIVE", "HANDLED"}
     /\ last.in.json /\ last.in.type = "upload_request") =>
        IF UploadRequestValid(last.in)
        THEN /\ last.op = "RECEIVE"
             /\ pl_pc = "upload_file"
             /\ last.sent = <<OutFile("upload_ack", last.in.filename)>>
        ELSE last.op = "HANDLED" /\ last.sent = <<>>

\* C5: a text message whose type is online_ack is handled in the network
\* callback, which sends exactly one file_list, and is not offered to the
\* event queue.
C5_OnlineAckInline ==
    (/\ last.ctx = "callback" /\ last.in.json
     /\ last.in.type = "online_ack") =>
        /\ last.op = "DATA_INLINE"
        /\ Len(last.sent) = 1
        /\ last.sent[1].type = "file_list"

\* C6: a successful download of file F with md5 H whose bytes hash to H
\* sends download_ack with filename F and download_complete with filename F
\* and md5 H.
C6_CompleteNamesTheFile ==
    (/\ last.op = "RETURN" /\ last.job.started = "download"
     /\ last.job.ret = "ESP_OK" /\ ~last.job.rd_err
     /\ MD5(last.job.written) = last.in.md5) =>
        /\ last.job.acks = <<OutFile("download_ack", last.in.filename)>>
        /\ last.job.completes =
              <<OutDone("download_complete", last.in.filename, last.in.md5)>>

\* C7: when the processing loop receives a download_notify it sends
\* download_ack and enters download_file if and only if data.filename,
\* data.url and data.md5 are strings and data.size > 0 (the ack being the
\* only message sent before the download starts); otherwise it sends
\* nothing and starts nothing.
C7_DownloadNotifyDispatch ==
    (/\ last.ctx = "loop" /\ last.op \in {"RECEIVE", "HANDLED"}
     /\ last.in.json /\ last.in.type = "download_notify") =>
        IF DownloadNotifyValid(last.in)
        THEN /\ last.op = "RECEIVE"
             /\ pl_pc = "download_file"
             /\ last.sent = <<OutFile("download_ack", last.in.filename)>>
        ELSE last.op = "HANDLED" /\ last.sent = <<>>

C9_FirstEventsAcceptedInOrder ==
    /\ handled = 0 =>
          /\ Len(ws_event_queue) =
                Min(WS_QUEUE_SIZE, IF cb_pc = "xQueueSend" THEN arrivals - 1
                                   ELSE arrivals)
          /\ \A i \in 1..Len(ws_event_queue) : ws_event_queue[i].seq = i
    /\ \A i \in 1..Len(ws_event_queue) :
          /\ ws_event_queue[i].seq > handled
          /\ i > 1 => ws_event_queue[i].seq > ws_event_queue[i - 1].seq

\* more events arrived than the queue holds, one was dropped, and the loop
\* has since received the accepted ones down to the last
C9_BurstDrained ==
    /\ arrivals = WS_QUEUE_SIZE + 1
    /\ handled = WS_QUEUE_SIZE
    /\ ws_event_queue = <<>>
    /\ cb_pc = "idle"

\* C10 as stated: no inbound message is handled while another one is being
\* handled or is waiting to be: when the callback answers a message itself
\* the processing loop is idle and the queue is empty.
C10_OneMessageAtATime ==
    last.op = "DATA_INLINE" =>
        (pl_pc = "recv" /\ ws_event_queue = <<>> /\ cb_pc = "idle")

\* C10, amended: of the messages placed on the queue, one at most is being
\* handled by the processing loop, the loop receives a message only when
\* the handling of the one before has returned, and it receives them in
\* arrival order.
C10_QueuedMessagesInOrder ==
    /\ []((pl_pc = "recv") <=> (cur = NoEvent))
    /\ [][handled' # handled =>
            /\ pl_pc = "recv"
            /\ handled' > handled
            /\ handled' = Head(ws_event_queue).seq]_vars

\* a transfer is running for the first of two messages and the second
\* waits on the queue
C10_TransferWhileQueued ==
    /\ pl_pc \in {"download_loop", "upload_loop"}
    /\ cur.seq = 1
    /\ ws_event_queue # <<>>
    /\ Head(ws_event_queue).seq = 2

\* C11: at most one transfer is in progress: download_file or upload_file
\* is running exactly when the processing loop is inside the handling of
\* one event, and a transfer starts only when none is running (a request
\* that arrives during a transfer waits on the queue until it has
\* returned).
C11_OneTransfer ==
    /\ []((xfer.dir = "none") <=> (pl_pc = "recv"))
    /\ []((xfer.dir = "download") <=>
             (pl_pc \in {"download_file", "download_loop", "catalog_update"}))
    /\ []((xfer.dir = "upload") <=> (pl_pc \in {"upload_file", "upload_loop"}))
    /\ [][(xfer'.dir # "none" /\ handled' # handled) => xfer.dir = "none"]_vars

\* a transfer request waits on the queue while a transfer is running
C11_RequestWaits ==
    /\ xfer.dir # "none"
    /\ ws_event_queue # <<>>
    /\ handle_ws_event(Head(ws_event_queue)) # "none"

\* C12: the catalog (device_files, file_count) is read and written by the
\* processing loop only: no step of the network callback formats a
\* file_list, which is the one place that reads it.
C12_CatalogInLoopOnly ==
    last.ctx = "callback" =>
        \A i \in 1..Len(last.sent) : last.sent[i].type # "file_list"

\* C13: no step of the network callback makes a call that can wait without
\* bound: every blocking call of the handler (on the outbound channel, on a
\* timer command, on the event queue) is given a finite timeout.
C13_CallbackNeverBlocks ==
    last.ctx = "callback" =>
        \A i \in 1..Len(last.waits) : last.waits[i].ticks # "portMAX_DELAY"

\* C14: once a DISCONNECTED event, a CLOSE frame or a transport ERROR event
\* has been handled (by the handler, and for ERROR by the processing loop as
\* well), the heartbeat timer is stopped and the reconnect timer is running.
C14_DisconnectArmsReconnect ==
    last.op \in {"DISCONNECTED", "DATA_CLOSE", "ERROR", "HANDLED_ERROR"} =>
        ~heartbeat_timer /\ reconnect_timer

\* C15: when a CONNECTED event has been handled, reconnect_attempts is 0,
\* the reconnect timer is stopped, the heartbeat timer is running, and the
\* handling sent exactly one online message, with the device version and
\* MAC address.
C15_ConnectedHandled ==
    last.op = "CONNECTED" =>
        /\ reconnect_attempts = 0
        /\ ~reconnect_timer
        /\ heartbeat_timer
        /\ last.sent = <<send_online_message>>

\* C16: the heartbeat timer is running exactly when the connection is
\* Connected: it is stopped at startup, only the handling of a CONNECTED
\* event starts it, and only the handling of a disconnect (a DISCONNECTED
\* event or a CLOSE frame) stops it.  A heartbeat is sent only by a firing
\* of the running timer, and while the timer is running a heartbeat is
\* eventually sent (or a disconnect stops the timer first).
C16_HeartbeatIffConnected ==
    /\ (last.op = "websocket_app_start" => ~heartbeat_timer)
    /\ [][last'.op = "CONNECTED" => heartbeat_timer']_vars
    /\ [][last'.op \in {"DISCONNECTED", "DATA_CLOSE"} => ~heartbeat_timer']_vars
    /\ [][heartbeat_timer' # heartbeat_timer =>
            last'.op \in {"CONNECTED", "DISCONNECTED", "DATA_CLOSE"}]_vars
    /\ [][(\E i \in 1..Len(last'.sent) : last'.sent[i].type = "heartbeat") =>
            (heartbeat_timer /\ last'.op = "HEARTBEAT")]_vars
    /\ (heartbeat_timer ~> (last.op = "HEARTBEAT" \/ ~heartbeat_timer))

\* a heartbeat of the second connection: the link was lost and regained
C16_HeartbeatAfterReconnect ==
    /\ last.op = "HEARTBEAT"
    /\ heartbeat_timer /\ conn
    /\ budget.ev <= HbEvents - 3

\* C17: a firing of the reconnect timer that finds reconnect_attempts at
\* MAX_RECONNECT_ATTEMPTS gives up: it makes no start call and begins no
\* increment, leaves the counter as it is, and stops the reconnect timer.
C17_FireAtCapGivesUp ==
    [][(last'.op \in {"RECONNECT_FIRE", "RECONNECT_GIVE_UP"}
        /\ reconnect_attempts = MAX_RECONNECT_ATTEMPTS) =>
            /\ last'.op = "RECONNECT_GIVE_UP"
            /\ rt_pc' = "idle"
            /\ starts' = starts
            /\ reconnect_attempts' = reconnect_attempts
            /\ ~reconnect_timer']_vars

\* the timer has fired at the cap and is stopped
C17_FiredAtCap ==
    /\ last.op = "RECONNECT_GIVE_UP"
    /\ reconnect_attempts = MAX_RECONNECT_ATTEMPTS
    /\ rt_pc = "idle"
    /\ ~reconnect_timer

\* C18: every disconnect is followed by at least one connect attempt: the
\* reconnect timer never gives up while the device is disconnected unless
\* attempt_reconnect has called esp_websocket_client_start at least once
\* since startup or the latest CONNECTED event.
C18_DisconnectThenAttempt ==
    (last.op = "RECONNECT_GIVE_UP" /\ ~conn) => starts > 0

\* C19: the catalog changes only by the append of one File Record at the
\* end of a download: after the read loop was left, the checksum finished
\* and reported, with HTTP status 200.  The record's md5 is the digest of
\* all the bytes the download wrote (the one download_complete carried),
\* and its size is their number, which is what the stored file holds.
C19_RecordAfterChecksum ==
    [][catVars' # catVars =>
        /\ pl_pc = "catalog_update" /\ last'.op = "RETURN"
        /\ xfer.status = 200
        /\ Len(job.completes) = 1
        /\ file_count' = file_count + 1
        /\ device_files' = Append(device_files, device_files'[file_count'])
        /\ device_files'[file_count'].md5 = MD5(job.written)
        /\ device_files'[file_count'].md5 = job.completes[1].md5
        /\ device_files'[file_count'].size = Len(job.written)
        /\ FileData(fs, device_files'[file_count'].filename) = job.written]_vars

\* a download of the whole body has been recorded
C19_RecordAppended ==
    /\ last.op = "RETURN" /\ last.job.started = "download"
    /\ file_count = Len(last.job.files0) + 1
    /\ device_files[file_count].size = Len(Body)
    /\ device_files[file_count].md5 = MD5(Body)

\* C20: a download that ends with HTTP status 200 (download_file returns
\* ESP_OK) has appended exactly one File Record, the one of the stored
\* file, to the catalog, and its last message is a file_list that contains
\* that record.
C20_DownloadRecorded ==
    (last.op = "RETURN" /\ last.job.started = "download"
     /\ last.job.ret = "ESP_OK") =>
        /\ Len(device_files) = Len(last.job.files0) + 1
        /\ file_count = Len(device_files)
        /\ device_files[file_count].filename = last.job.completes[1].filename
        /\ \E i \in 1..Len(last.sent) :
              /\ last.sent[i].type = "file_list"
              /\ \E k \in 1..Len(last.sent[i].files) :
                    last.sent[i].files[k] = device_files[file_count]

\* C21: file_count stays within 0..MAX_FILES and counts the records of
\* device_files, and a File Record is written only at an index (the old
\* file_count) of at most MAX_FILES - 1, however many downloads complete.
C21_CatalogWithinCap ==
    /\ [](file_count \in 0..MAX_FILES /\ Len(device_files) = file_count)
    /\ [][catVars' # catVars => file_count <= MAX_FILES - 1]_vars

\* one more download has completed with the catalog full
C21_DownloadWithFullCatalog ==
    /\ last.op = "RETURN" /\ last.job.ret = "ESP_OK"
    /\ Len(last.job.files0) = MAX_FILES
    /\ file_count = MAX_FILES

\* C22: when the read loop of a download has been left with HTTP status 200
\* and the computed checksum differs from the declared md5, download_file
\* returns success, has sent download_complete with the computed checksum,
\* has appended the File Record and announced it in a file_list, and has
\* sent no error message.
C22_MismatchAccepted ==
    [][(last'.op = "RETURN" /\ xfer.dir = "download"
        /\ pl_pc \in {"download_loop", "catalog_update"}
        /\ ~last'.job.wr_short /\ xfer.status = 200
        /\ MD5Finish(xfer.md5_ctx) # xfer.expected_md5) =>
            /\ last'.job.ret = "ESP_OK"
            /\ last'.job.completes =
                  <<send_download_complete(xfer.short, MD5Finish(xfer.md5_ctx))>>
            /\ file_count' = Len(last'.job.files0) + 1
            /\ device_files'[file_count'].md5 = MD5Finish(xfer.md5_ctx)
            /\ \E i \in 1..Len(last'.sent) :
                  /\ last'.sent[i].type = "file_list"
                  /\ \E k \in 1..Len(last'.sent[i].files) :
                        last'.sent[i].files[k] = device_files'[file_count']
            /\ \A i \in 1..Len(last'.sent) : last'.sent[i].type # "error"]_vars

\* C23: download_file leaves the file system without its first k resident
\* files (in enumeration order), for the least k that makes free >= R, or
\* without any file if no k does; k = 0 when S >= R.  The target file may
\* then have been created.  (A download that fails before the free space
\* is known, or because the directory cannot be opened, deletes nothing.)
C23_ReclaimUntilEnoughOrEmpty ==
    [][(pl_pc = "download_file" /\ pl_pc' # "download_file") =>
        \/ \E k \in 0..Len(fs) :
              LET left == SubSeq(fs, k + 1, Len(fs))
                  R == xfer.file_size
              IN  /\ fs' \in {left, FopenWb(left, ShortName(xfer.filename,
                                                            xfer.expected_md5))}
                  /\ Free(left) >= R \/ k = Len(fs)
                  /\ \A j \in 0..(k - 1) :
                        Free(SubSeq(fs, j + 1, Len(fs))) < R
        \/ /\ fs' = fs /\ last'.op = "RETURN"
           /\ last'.job.ret \in {"ESP_FAIL", "ESP_ERR_SPIFFS", "ESP_ERR_NO_MEM"}]_vars

\* C24: when download_file ends its preparation with free space below the
\* declared size, it has returned a failure (ESP_ERR_NO_MEM once the space
\* was checked) without creating or truncating the target file, without
\* opening the HTTP stream, without sending anything and without changing
\* the catalog.
C24_NoSpaceAborts ==
    [][(pl_pc = "download_file" /\ pl_pc' # "download_file"
        /\ Free(fs') < xfer.file_size) =>
           LET target == ShortName(xfer.filename, xfer.expected_md5)
           IN  /\ last'.op = "RETURN"
               /\ \/ last'.job.ret = "ESP_ERR_NO_MEM"
                  \/ last'.job.ret \in {"ESP_FAIL", "ESP_ERR_SPIFFS"} /\ fs' = fs
               /\ ~last'.job.created /\ ~last'.job.opened
               /\ last'.job.completes = <<>> /\ last'.sent = <<>>
               /\ catVars' = catVars
               /\ Resident(fs', target) =>
                     /\ Resident(fs, target)
                     /\ FileData(fs', target) = FileData(fs, target)]_vars

\* every file was deleted and the space still does not suffice
C24_ReclaimedInVain ==
    /\ last.op = "RETURN" /\ last.job.ret = "ESP_ERR_NO_MEM"
    /\ ~last.job.created
    /\ last.in.size > SpiffsTotal
    /\ fs = <<>>

\* C25: a download that is aborted because storage is insufficient
\* (ESP_ERR_NO_MEM before the file is created) or because the file is
\* oversized (ESP_ERR_INVALID_SIZE) is reported to the server: the step in
\* which download_file returns sends a message of type error.
C25_AbortReported ==
    (/\ last.op = "RETURN" /\ last.job.started = "download"
     /\ \/ last.job.ret = "ESP_ERR_NO_MEM" /\ ~last.job.created
        \/ last.job.ret = "ESP_ERR_INVALID_SIZE") =>
        \E i \in 1..Len(last.sent) : last.sent[i].type = "error"

\* C26: a download rejected for its size leaves no trace: when
\* download_file returns ESP_ERR_INVALID_SIZE, and whenever the
\* download_notify declared a size that is not positive or above
\* MAX_FILE_SIZE, the target file was not created and the HTTP stream was
\* not opened.
C26_BadSizeRejectedEarly ==
    /\ (last.op = "RETURN" /\ last.job.ret = "ESP_ERR_INVALID_SIZE") =>
          ~last.job.created /\ ~last.job.opened
    /\ (/\ last.op \in {"RETURN", "HANDLED"}
        /\ last.in.type = "download_notify" /\ last.in.json
        /\ last.in.size <= 0 \/ last.in.size > MAX_FILE_SIZE) =>
          ~last.job.created /\ ~last.job.opened

\* the progress notifications among the messages of a step
ProgressOf(sent) ==
    {i \in 1..Len(sent) :
        sent[i].type \in {"download_progress", "upload_progress"}}

\* C27: within one transfer the reported percentages are strictly
\* increasing.  last_percent is 0 when the transfer starts and changes only
\* to the percentage of a notification just sent; a step sends at most one
\* notification, and its percentage is above last_percent, also for the
\* final 100% of an upload.
C27_PercentStrictlyIncreasing ==
    /\ [][\A i \in ProgressOf(last'.sent) :
            /\ xfer.dir # "none"
            /\ last'.sent[i].percent > xfer.last_percent
            /\ xfer'.dir # "none" => xfer'.last_percent = last'.sent[i].percent
            /\ ProgressOf(last'.sent) = {i}]_vars
    /\ [][xfer'.last_percent # xfer.last_percent =>
            \/ xfer.dir = "none" \/ xfer'.dir = "none"
            \/ \E i \in ProgressOf(last'.sent) :
                  last'.sent[i].percent = xfer'.last_percent]_vars
    /\ [][(xfer.dir = "none" /\ xfer'.dir # "none") => xfer'.last_percent = 0]_vars

\* an upload that reported 99% in its loop sends the final 100% after it
C27_FinalNotification ==
    /\ last.op = "RETURN" /\ last.job.started = "upload"
    /\ last.job.ret = "ESP_OK"
    /\ \E i \in ProgressOf(last.sent) :
          /\ last.sent[i].percent = 100
          /\ last.sent[i].transferred = Len(TwoPassFile.data)


\* C28: every progress notification of a transfer is sent only when the
\* percentage has advanced by at least 10 points since the last reported
\* percentage, or at least 3 seconds have passed since the last report of
\* that transfer (last_percent and last_update_time, both 0 until the first
\* report).
C28_NotificationsThrottled ==
    [][\A i \in ProgressOf(last'.sent) :
          \/ last'.sent[i].percent - xfer.last_percent >= 10
          \/ now' - xfer.last_update_time >= 3]_vars


\* an online_ack the device has received and not answered: its event waits
\* in the handler's xQueueSend or in the event queue
OnlineAckUnanswered ==
    \/ /\ cb_pc = "xQueueSend"
       /\ cb_msg.msg.json /\ cb_msg.msg.type = "online_ack"
    \/ \E i \in 1..Len(ws_event_queue) :
          ws_event_queue[i].msg.json /\ ws_event_queue[i].msg.type = "online_ack"

\* C29: once the device has sent online and received online_ack, the next
\* message it sends is file_list: the step that receives the online_ack
\* sends nothing before a file_list, and while a received online_ack is
\* still unanswered no step sends a heartbeat, progress, ack or completion
\* message.
C29_FileListAfterOnlineAck ==
    /\ [][(/\ last'.ctx = "callback" /\ last'.in.json
           /\ last'.in.type = "online_ack" /\ last'.sent # <<>>) =>
              last'.sent[1].type = "file_list"]_vars
    /\ [][(OnlineAckUnanswered /\ last'.sent # <<>>) =>
              last'.sent[1].type = "file_list"]_vars


\* the type tags the handler or the dispatcher has a branch for (lines
\* 214-227, 300, 353-359)
KnownTypes ==
    {"online_ack", "file_list_ack", "heartbeat_ack", "download_notify",
     "upload_request", "download_complete_ack", "upload_complete_ack"}

\* a text that is not JSON, has no type, or has a type of no branch
Discarded(m) == ~m.json \/ m.type \notin KnownTypes

\* C30: a data message of unknown type, without a type or that is not JSON
\* makes neither the handler nor the processing loop send anything and
\* leaves reconnect_attempts, both timers and the catalog as they were; the
\* processing loop is back at xQueueReceive after it.
C30_DiscardedSilently ==
    /\ [][(/\ last'.ctx = "callback"
           /\ last'.op \in {"DATA_INLINE", "DATA_QUEUEABLE"}
           /\ Discarded(last'.in)) =>
              /\ last'.sent = <<>>
              /\ UNCHANGED <<reconnect_attempts, heartbeat_timer,
                             reconnect_timer, device_files, file_count>>]_vars
    /\ [][(/\ handled' # handled
           /\ Head(ws_event_queue).event_type = "WS_EVENT_DATA"
           /\ Discarded(Head(ws_event_queue).msg)) =>
              /\ last'.sent = <<>>
              /\ pl_pc' = "recv"
              /\ UNCHANGED <<reconnect_attempts, heartbeat_timer,
                             reconnect_timer, device_files, file_count>>]_vars


\* C31: provided every transfer terminates, every event accepted into
\* ws_event_queue is eventually received and handled by the processing
\* loop, and exactly once: the loop handles the event at the front of the
\* queue, takes it off the queue and never handles an earlier event again.
\* The loop never exits: it is back at xQueueReceive again and again, also
\* after attempt_reconnect has given up and after a transfer has failed.
C31_AcceptedEventsHandled ==
    /\ [](arrivals <= LoopArrivals)
    /\ \A n \in 1..LoopArrivals :
          (\E i \in 1..Len(ws_event_queue) : ws_event_queue[i].seq = n)
              ~> (handled = n)
    /\ [][handled' # handled =>
            /\ ws_event_queue # <<>>
            /\ handled' = Head(ws_event_queue).seq
            /\ handled' > handled
            /\ ws_event_queue' = Tail(ws_event_queue)
            /\ \A i \in 1..Len(ws_event_queue') :
                  ws_event_queue'[i].seq > handled']_vars
    /\ []<>(pl_pc = "recv")

\* an event waits in the queue when a transfer has just failed and
\* attempt_reconnect has given up
C31_WaitingAfterFailure ==
    /\ ws_event_queue # <<>>
    /\ last.op = "RETURN" /\ last.job.ret # "ESP_OK"
    /\ reconnect_attempts = MAX_RECONNECT_ATTEMPTS /\ ~reconnect_timer


\* C32: a valid download_notify (filename, url, md5 present, size > 0) that
\* the processing loop receives while the free space is at least the
\* declared size starts a download; a download that has begun comes to its
\* end; and when the stream was opened with a length in 1..MAX_FILE_SIZE
\* and status 200 and every chunk was written, the end of the read loop
\* sends download_complete.
C32_ValidDownloadCompletes ==
    /\ [][(/\ handled' # handled
           /\ Head(ws_event_queue).msg.json
           /\ Head(ws_event_queue).msg.type = "download_notify"
           /\ DownloadNotifyValid(Head(ws_event_queue).msg)
           /\ Free(fs) >= Head(ws_event_queue).msg.size) =>
              pl_pc' = "download_file"]_vars
    /\ (pl_pc \in {"download_file", "download_loop"}) ~> (last.op = "RETURN")
    /\ [][(/\ pl_pc = "download_loop" /\ pl_pc' # "download_loop"
           /\ xfer.status = 200 /\ ~last'.job.wr_short) =>
              \E i \in 1..Len(last'.sent) :
                  last'.sent[i].type = "download_complete"]_vars


\* C35: the md5 carried by upload_complete is the digest of exactly the
\* bytes upload_file wrote to the HTTP stream, and the count of bytes it
\* reports as written (total_write, in the final progress notification) is
\* the number of those bytes.
C35_DigestOfSentBytes ==
    (last.op = "RETURN" /\ last.job.started = "upload") =>
        /\ \A i \in 1..Len(last.job.completes) :
              last.job.completes[i].md5 = MD5(last.job.written)
        /\ \A i \in ProgressOf(last.sent) :
              last.sent[i].transferred = Len(last.job.written)


C34_CounterCountsAttempts ==
    /\ [][(last'.ctx = "timer" /\ reconnect_attempts' # reconnect_attempts) =>
            /\ reconnect_attempts' = reconnect_attempts + 1
            /\ starts' = starts + 1]_vars
    /\ [](reconnect_attempts = starts)


\* the payload buffers that are referenced: by the events in the queue, by
\* the event the handler is offering to the queue, by the event the
\* processing loop is handling
Payloads(e) == IF e.event_type = "WS_EVENT_DATA" THEN 1 ELSE 0

RECURSIVE QueuedPayloads(_)
QueuedPayloads(q) ==
    IF q = <<>> THEN 0 ELSE Payloads(Head(q)) + QueuedPayloads(Tail(q))

LivePayloads ==
    QueuedPayloads(ws_event_queue) + Payloads(cb_msg) + Payloads(cur)

\* C36: every payload buffer the callback allocates for a data message is
\* freed exactly once, so the buffers that are live are exactly those still
\* referenced by a queued or pending event, and there are never more than
\* WS_QUEUE_SIZE + 2 of them.
C36_PayloadsFreedOnce ==
    /\ heap = LivePayloads
    /\ heap <= WS_QUEUE_SIZE + 2

\* the queue is full, the handler holds one more message and the loop is in
\* a download
C36_MostPayloads ==
    /\ heap = WS_QUEUE_SIZE + 2
    /\ pl_pc = "download_loop"
    /\ cb_pc = "xQueueSend"


\* C37: send_file_list never runs in two contexts at once: the handler does
\* not answer an online_ack with a file_list while the processing loop is
\* between the end of a download and its own file_list (lines 838-846), so
\* no file_list is formatted in the static buffers by both at once.
C37_FileListNotConcurrent ==
    /\ ~xfer.raced
    /\ (last.op = "DATA_INLINE" /\ last.sent # <<>>) => ~CatalogRace
    /\ \A i \in 1..Len(last.sent) : last.sent[i] # TornFileList


\* C38: every File Record of the catalog names a file that is on SPIFFS (a
\* file the Storage Reclaimer deleted is no longer listed), and every
\* file_list that is sent lists only files that are on SPIFFS.
C38_CatalogFilesResident ==
    /\ \A k \in 1..file_count : Resident(fs, device_files[k].filename)
    /\ \A i \in 1..Len(last.sent) :
          (last.sent[i].type = "file_list" /\ last.sent[i] # TornFileList) =>
              \A j \in 1..Len(last.sent[i].files) :
                  Resident(fs, last.sent[i].files[j].filename)


\* C39: the heartbeat timer and the reconnect timer are never both running,
\* whatever the order of CONNECTED, DISCONNECTED, CLOSE frames, ERROR events
\* and timer firings: the handler stops the one before it starts the other
\* (lines 157-160, 166-170, 192-195) and attempt_reconnect only stops
\* (line 493).
C39_TimersExclusive == ~(heartbeat_timer /\ reconnect_timer)

\* the connection came back after the reconnect timer had fired: the
\* reconnect timer is stopped and the heartbeat timer runs
C39_HeartbeatAfterReconnect ==
    /\ last.op = "CONNECTED"
    /\ budget.fire < RcFires
    /\ heartbeat_timer /\ ~reconnect_timer


\* C40: no two File Records of the catalog have the same filename: a
\* download whose stored name is already in the catalog adds no second
\* record with that name.
C40_CatalogNamesDistinct ==
    \A i, j \in 1..file_count :
        i # j => device_files[i].filename # device_files[j].filename

=============================================================================
